---------------------------- MODULE Spec2Model ----------------------------
(***************************************************************************)
(* REDPy plotting: the correlation-matrix completion of plotReport and the *)
(* lifespan clipping of generateLines (src/redpy/plotting_bak.py).         *)
(*                                                                         *)
(* Coefficients are real numbers in [-1,1] in the program; here they are   *)
(* counted in tenths, so that Unit (10) is the coefficient 1.0 that        *)
(* np.eye puts on the diagonal and 9 is the coefficient 0.9.               *)
(* Matrices and index arrays are functions on 0..n-1, as in the source.    *)
(***************************************************************************)
EXTENDS Integers, Sequences, FiniteSets, TLC

VARIABLES
    store,      \* ctable: set of rows [id1, id2, ccc]
    fam,        \* fam: member rows of rtable, in the order of ftable's member string
    famcat,     \* famcat: member rows sorted by event time
    Cind,       \* Cind: the stored matrix, in famcat order
    Cfull,      \* Cfull: the completed matrix, in famcat order
    i, j,       \* position of the completion loop
    calls,      \* invocations of xcorr1x1 so far: [i, j, ok, cor]
    pc,         \* position of plotReport
    mintime, maxtime, barpad, famstart, longev,   \* arguments of generateLines
    lines,      \* what generateLines returned
    arm,        \* the arm of generateLines' if/elif chain that ran
    cpc,        \* position of the generateLines call
    run,        \* 1 in the first completion of the family, 2 in the second
    Cfull1,     \* the completed matrix of the first completion
    ftable,     \* ftable: for each family number, its member rows of rtable
    minplot, binsize, colorby, useBokeh,   \* arguments of plotFamilyOccurrence
    clustNum,   \* the family plotFamilyOccurrence's loop is at
    nrow,       \* n: the next row of the occurrence timeline
    d1,         \* the left edges of the non-empty bins of one family
    fig,        \* what plotFamilyOccurrence has drawn so far
    opc,        \* position of plotFamilyOccurrence
    printme,    \* ftable.cols.printme: the families to plot again
    sliceFails, \* the families whose waveform slice raises inside the try
    cnum,       \* the family plotFamilies' loop is at
    plotted,    \* the families whose plot was saved
    diag,       \* the families that got a diagnostic message
    ppc,        \* position of plotFamilies
    hist,       \* the counts of the non-empty bins of one family
    ind,        \* the colour indices computed from hist
    kpc,        \* position of the colour computation
    ordered,    \* plotReport's argument ordered
    matrixtofile, \* plotReport's argument matrixtofile
    fnum,       \* plotReport's argument fnum
    files,      \* the files of the reports directory: name -> content
    firstSaved, \* what the first of two plotReport calls saved
    plotformat, \* opt.plotformat: the groups split at ',', each split at '+'
    plots,      \* plots: the subplots renderBokehTimeline created
    tabtitles,  \* tabtitles: the titles of the created subplots
    gridplot_items, \* gridplot_items without the Div: the rows of the layout
    pnum,       \* pnum: the next subplot the layout takes
    tpos,       \* the entry of plot_types the creation loop is at
    gpos,       \* the group of plotformat the layout loop is at
    rpc,        \* position of renderBokehTimeline
    core,       \* ftable[cnum]['core']: the core event of the family
    tline,      \* the points plotSingleFamily puts on its three timelines
    tpc,        \* position of the timelines of plotSingleFamily
    lastprint,  \* ftable.cols.lastprint: the number each family was printed under
    disk,       \* the files of the clusters directory: name -> image
    before,     \* the clusters directory when createPlots was called
    lastprint0, \* lastprint when createPlots was called
    printme0,   \* printme when createPlots was called
    rnum,       \* n: the family the renaming loop of plotCores is at
    ncall,      \* 1 in the first call of createPlots, 2 in the repeated one
    xpc         \* position of createPlots

matrixVars == <<store, fam, famcat, Cind, Cfull, i, j, calls, pc>>
clipVars   == <<mintime, maxtime, barpad, famstart, longev, lines, arm, cpc>>
idemVars   == <<run, Cfull1>>
occVars    == <<ftable, minplot, binsize, colorby, useBokeh, clustNum, nrow, d1, fig, opc>>
passVars   == <<printme, sliceFails, cnum, plotted, diag, ppc>>
colorVars  == <<hist, ind, kpc>>
reportVars == <<ordered, matrixtofile, fnum, files, firstSaved>>
layoutVars == <<plotformat, plots, tabtitles, gridplot_items, pnum, tpos, gpos, rpc>>
timelineVars == <<core, tline, tpc>>
renumVars  == <<lastprint, disk, before, lastprint0, printme0, rnum, ncall, xpc>>
moreVars   == <<layoutVars, timelineVars, renumVars>>
extVars    == <<reportVars, moreVars>>
vars       == <<store, fam, famcat, Cind, Cfull, i, j, calls, pc,
                mintime, maxtime, barpad, famstart, longev, lines, arm, cpc,
                run, Cfull1,
                ftable, minplot, binsize, colorby, useBokeh, clustNum, nrow, d1, fig, opc,
                printme, sliceFails, cnum, plotted, diag, ppc,
                hist, ind, kpc,
                ordered, matrixtofile, fnum, files, firstSaved,
                plotformat, plots, tabtitles, gridplot_items, pnum, tpos, gpos, rpc,
                core, tline, tpc,
                lastprint, disk, before, lastprint0, printme0, rnum, ncall, xpc>>

\* the parts of the state a specification does not use
IdemIdle == run = 1 /\ Cfull1 = <<>>

OccIdle ==
    /\ ftable = <<>> /\ minplot = 0 /\ binsize = 0 /\ colorby = "rate"
    /\ useBokeh = TRUE /\ clustNum = 0 /\ nrow = 0 /\ d1 = <<>> /\ fig = <<>>
    /\ opc = "idle"

PassIdle ==
    /\ printme = <<>> /\ sliceFails = {} /\ cnum = 0 /\ plotted = {} /\ diag = {}
    /\ ppc = "idle"

ColorIdle == hist = <<>> /\ ind = <<>> /\ kpc = "idle"

ReportIdle ==
    /\ ordered = FALSE /\ matrixtofile = FALSE /\ fnum = 0
    /\ files = <<>> /\ firstSaved = <<>>

LayoutIdle ==
    /\ plotformat = <<>> /\ plots = <<>> /\ tabtitles = <<>>
    /\ gridplot_items = <<>> /\ pnum = 0 /\ tpos = 0 /\ gpos = 0 /\ rpc = "idle"

TimelineIdle == core = 0 /\ tline = <<>> /\ tpc = "idle"

RenumIdle ==
    /\ lastprint = <<>> /\ disk = <<>> /\ before = <<>>
    /\ lastprint0 = <<>> /\ printme0 = <<>>
    /\ rnum = 0 /\ ncall = 1 /\ xpc = "idle"

MoreIdle == LayoutIdle /\ TimelineIdle /\ RenumIdle

ExtIdle == ReportIdle /\ MoreIdle

---------------------------------------------------------------------------
(* Bounds of the model *)

\* largest family, and number of rows of rtable
MaxFam == 3

\* largest number of rows of ctable
MaxStore == 3

\* number of points of the time grid of the clipper's inputs
MaxTimeSteps == 5

\* longest lifespan, in grid steps
MaxLenSteps == 4

---------------------------------------------------------------------------
(* The tables read by plotReport *)

\* the diagonal value of np.eye: the coefficient 1.0, in tenths
Unit == 10

Rows == 0 .. (MaxFam - 1)

\* rtable.cols.id: the id of the event in row r
Ids(r) == 2 * r + 1

\* rtable.cols.startTimeMPL: the event time of row r (later rows are earlier)
StartTimeMPL(r) == 700 - r

AllIds == {Ids(r) : r \in Rows}

\* coefficients a row of ctable may hold, and coefficients xcorr1x1 may return
StoreValues == {0, 9}
CompValues  == {0, 5}

\* ctable: one row per unordered pair of ids, the smaller id first
CtableRows == {[id1 |-> a, id2 |-> b, ccc |-> v] :
                 a \in AllIds, b \in AllIds, v \in StoreValues}

IsCtable(s) ==
    /\ Cardinality(s) <= MaxStore
    /\ \A r \in s : r.id1 < r.id2
    /\ \A r1 \in s, r2 \in s : (r1.id1 = r2.id1 /\ r1.id2 = r2.id2) => r1 = r2

Ctables == {s \in SUBSET {r \in CtableRows : r.id1 < r.id2} : IsCtable(s)}

\* ftable[fnum]['members']: a non-empty list of distinct rows of rtable
Families == UNION {{f \in [0 .. (n - 1) -> Rows] :
                      \A a, b \in 0 .. (n - 1) : a # b => f[a] # f[b]} :
                   n \in 1 .. MaxFam}

Size(f) == Cardinality(DOMAIN f)

---------------------------------------------------------------------------
(* plotReport: the stored matrix *)

\* catalogind = np.argsort(startTimeMPL[fam])
Catalogind(f) ==
    [k \in DOMAIN f |->
        CHOOSE m \in DOMAIN f :
            Cardinality({x \in DOMAIN f :
                           StartTimeMPL(f[x]) < StartTimeMPL(f[m])}) = k]

\* famcat = fam[catalogind]
Famcat(f) == [k \in DOMAIN f |-> f[Catalogind(f)[k]]]

\* idf = ids[fam]
Idf(f) == [k \in DOMAIN f |-> Ids(f[k])]

\* ix = np.where(np.in1d(id2, idf)): the rows whose id2 is a member
Ix(s, f) == {r \in s : \E k \in DOMAIN f : Idf(f)[k] = r.id2}

\* np.where(idf==xx)[0][0]; an IndexError when xx is no member
InIdf(f, xx) == \E k \in DOMAIN f : Idf(f)[k] = xx
Where(f, xx) == CHOOSE k \in DOMAIN f : Idf(f)[k] = xx

\* building r1 raises when a row of ix has an id1 that is no member
RaisesIndexError(s, f) == \E r \in Ix(s, f) : ~InIdf(f, r.id1)

\* a C that starts as np.zeros
EyeZeros(a, b) == 0

\* C = np.eye(len(idf))
Eye(a, b) == IF a = b THEN Unit ELSE 0

\* C[r1,r2] = ccc[ix]: the cell (a,b) after the first assignment
AssignR1R2(s, f, a, b) ==
    IF \E r \in Ix(s, f) : Where(f, r.id1) = a /\ Where(f, r.id2) = b
    THEN (CHOOSE r \in Ix(s, f) : Where(f, r.id1) = a /\ Where(f, r.id2) = b).ccc
    ELSE Eye(a, b)

\* the fill without its second assignment
AssignR2R1Missing(s, f, a, b) == AssignR1R2(s, f, a, b)

\* C[r2,r1] = ccc[ix]: the cell (a,b) after the second assignment
AssignR2R1(s, f, a, b) ==
    IF \E r \in Ix(s, f) : Where(f, r.id2) = a /\ Where(f, r.id1) = b
    THEN (CHOOSE r \in Ix(s, f) : Where(f, r.id2) = a /\ Where(f, r.id1) = b).ccc
    ELSE AssignR1R2(s, f, a, b)

\* C, indexed by position in fam
CMatrix(s, f) == [a \in DOMAIN f |-> [b \in DOMAIN f |-> AssignR2R1(s, f, a, b)]]

\* a Cind left in the order of fam
ReindexNone(M, p) == M

\* Cind = C[catalogind,:]; Cind = Cind[:,catalogind]
Reindex(M, p) == [a \in DOMAIN p |-> [b \in DOMAIN p |-> M[p[a]][p[b]]]]

\* Cfull = Cind.copy()
Copy(M) == M

---------------------------------------------------------------------------
(* plotReport: the completion loop *)

\* an inner loop over the whole row: for j in range(len(famcat))
JStart0(a) == 0

\* for j in range(i+1, len(famcat)): the first j of row i
JStart(a) == a + 1

\* a loop that computes every pair
NeedsCompareAlways(v) == TRUE

\* if Cfull[i,j]==0
NeedsCompare(v) == v = 0

\* Cfull[i,j] = cor; Cfull[j,i] = cor
SetPair(M, a, b, cor) ==
    [x \in DOMAIN M |-> [y \in DOMAIN M |->
        IF (x = a /\ y = b) \/ (x = b /\ y = a) THEN cor ELSE M[x][y]]]

\* the loop position after (a,b), or <<n, n>> when the loops are over
NextPos(a, b, n) ==
    IF b + 1 < n THEN <<a, b + 1>>
    ELSE IF a + 1 < n - 1 THEN <<a + 1, JStart(a + 1)>>
    ELSE <<n, n>>

\* the first loop position: for i in range(len(famcat)-1)
FirstPos(n) == IF 0 < n - 1 THEN <<0, JStart(0)>> ELSE <<n, n>>

LoopPc(pos, n) == IF pos = <<n, n>> THEN "done" ELSE "loop"

\* lines 1718-1735: idf, ix, C, r1, r2, the two assignments, Cind, Cfull
BuildStored ==
    /\ pc = "start"
    /\ IF RaisesIndexError(store, fam)
       THEN /\ pc' = "raised"
            /\ UNCHANGED <<famcat, Cind, Cfull, i, j>>
       ELSE /\ famcat' = Famcat(fam)
            /\ Cind' = Reindex(CMatrix(store, fam), Catalogind(fam))
            /\ Cfull' = Copy(Cind')
            /\ i' = FirstPos(Size(fam))[1]
            /\ j' = FirstPos(Size(fam))[2]
            /\ pc' = LoopPc(FirstPos(Size(fam)), Size(fam))
    /\ UNCHANGED <<store, fam, calls>>
    /\ UNCHANGED <<clipVars, idemVars, occVars, passVars, colorVars>>
    /\ UNCHANGED extVars

\* redpy.correlation.xcorr1x1: it returns a coefficient or fails
xcorr1x1Returns == CompValues
xcorr1x1MayFail == TRUE

\* lines 1738-1744 when xcorr1x1 returns cor
Compare ==
    /\ pc = "loop"
    /\ NeedsCompare(Cfull[i][j])
    /\ \E cor \in xcorr1x1Returns :
        /\ Cfull' = SetPair(Cfull, i, j, cor)
        /\ calls' = Append(calls, [i |-> i, j |-> j, ok |-> TRUE, cor |-> cor])
    /\ i' = NextPos(i, j, Size(fam))[1]
    /\ j' = NextPos(i, j, Size(fam))[2]
    /\ pc' = LoopPc(NextPos(i, j, Size(fam)), Size(fam))
    /\ UNCHANGED <<store, fam, famcat, Cind>>
    /\ UNCHANGED <<clipVars, idemVars, occVars, passVars, colorVars>>
    /\ UNCHANGED extVars

\* lines 1738-1744 when xcorr1x1 raises: plotReport has no handler around it
CompareRaises ==
    /\ pc = "loop"
    /\ NeedsCompare(Cfull[i][j])
    /\ xcorr1x1MayFail
    /\ calls' = Append(calls, [i |-> i, j |-> j, ok |-> FALSE, cor |-> 0])
    /\ pc' = "raised"
    /\ UNCHANGED <<store, fam, famcat, Cind, Cfull, i, j>>
    /\ UNCHANGED <<clipVars, idemVars, occVars, passVars, colorVars>>
    /\ UNCHANGED extVars

\* line 1738 when the cell is not 0: nothing is computed
Skip ==
    /\ pc = "loop"
    /\ ~NeedsCompare(Cfull[i][j])
    /\ i' = NextPos(i, j, Size(fam))[1]
    /\ j' = NextPos(i, j, Size(fam))[2]
    /\ pc' = LoopPc(NextPos(i, j, Size(fam)), Size(fam))
    /\ UNCHANGED <<store, fam, famcat, Cind, Cfull, calls>>
    /\ UNCHANGED <<clipVars, idemVars, occVars, passVars, colorVars>>
    /\ UNCHANGED extVars

ClipIdle ==
    /\ mintime = 0 /\ maxtime = 0 /\ barpad = 0 /\ famstart = 0 /\ longev = 0
    /\ lines = <<>>
    /\ arm = 0
    /\ cpc = "idle"

Init ==
    /\ store \in Ctables
    /\ fam \in Families
    /\ famcat = <<>>
    /\ Cind = <<>>
    /\ Cfull = <<>>
    /\ i = 0
    /\ j = 0
    /\ calls = <<>>
    /\ pc = "start"
    /\ ClipIdle
    /\ IdemIdle /\ OccIdle /\ PassIdle /\ ColorIdle /\ ExtIdle

Next == BuildStored \/ Compare \/ CompareRaises \/ Skip

Spec == Init /\ [][Next]_vars

---------------------------------------------------------------------------
(* generateLines *)

\* the times of the axis and of the families, and the paddings
TimeGrid == {50 * k : k \in 1 .. MaxTimeSteps}
LenGrid  == {50 * k : k \in 0 .. MaxLenSteps}
PadGrid  == {0, 1}

\* a first test that is strict on the left: mintime<famstart
Cond1Strict(mn, mx, st, lg) == (mn < st) /\ (mx >= st + lg)

\* line 793: if (mintime<=famstart) and (maxtime>=famstart+longev)
Cond1(mn, mx, st, lg) == (mn <= st) /\ (mx >= st + lg)

\* a second test that is strict on the right: maxtime<famstart
Cond2Strict(mn, mx, st, lg) == (mn <= st) /\ (mx < st)

\* line 799: elif (mintime<=famstart) and (maxtime<=famstart)
Cond2(mn, mx, st, lg) == (mn <= st) /\ (mx <= st)

\* line 803: elif (mintime<=famstart) and (maxtime<=famstart+longev)
Cond3(mn, mx, st, lg) == (mn <= st) /\ (mx <= st + lg)

\* lines 810-811: elif (mintime>=famstart) and (maxtime>=famstart+longev) and
\* (mintime<=famstart+longev)
Cond4(mn, mx, st, lg) == (mn >= st) /\ (mx >= st + lg) /\ (mn <= st + lg)

\* line 818: elif (mintime>=famstart) and (maxtime<=famstart+longev)
Cond5(mn, mx, st, lg) == (mn >= st) /\ (mx <= st + lg)

\* the arm of the if/elif chain that runs: 1..5, or 0 when none does
Arm(mn, mx, st, lg) ==
    IF Cond1(mn, mx, st, lg) THEN 1
    ELSE IF Cond2(mn, mx, st, lg) THEN 2
    ELSE IF Cond3(mn, mx, st, lg) THEN 3
    ELSE IF Cond4(mn, mx, st, lg) THEN 4
    ELSE IF Cond5(mn, mx, st, lg) THEN 5
    ELSE 0

\* lines 786-790: the values returned when no arm assigns them
Defaults == [add_line |-> FALSE, add_larrow |-> FALSE, add_rarrow |-> FALSE,
             x1 |-> 0, x2 |-> 0]

\* lines 794-796
Arm1(mn, mx, pad, st, lg) ==
    [Defaults EXCEPT !.add_line = TRUE, !.x1 = st, !.x2 = st + lg]

\* line 800
Arm2(mn, mx, pad, st, lg) == [Defaults EXCEPT !.add_line = FALSE]

\* a right-clipped line that ends at the family's end instead of the axis
Arm3Unclipped(mn, mx, pad, st, lg) ==
    [Defaults EXCEPT !.add_line = TRUE, !.add_rarrow = TRUE,
                     !.x1 = st, !.x2 = st + lg]

\* lines 804-807
Arm3(mn, mx, pad, st, lg) ==
    [Defaults EXCEPT !.add_line = TRUE, !.add_rarrow = TRUE,
                     !.x1 = st, !.x2 = mx + pad]

\* a left-clipped line without its left arrow
Arm4NoArrow(mn, mx, pad, st, lg) ==
    [Defaults EXCEPT !.add_line = TRUE, !.x1 = mn - pad, !.x2 = st + lg]

\* lines 812-815
Arm4(mn, mx, pad, st, lg) ==
    [Defaults EXCEPT !.add_line = TRUE, !.add_larrow = TRUE,
                     !.x1 = mn - pad, !.x2 = st + lg]

\* lines 819-823
Arm5(mn, mx, pad, st, lg) ==
    [Defaults EXCEPT !.add_line = TRUE, !.add_larrow = TRUE, !.add_rarrow = TRUE,
                     !.x1 = mn - pad, !.x2 = mx + pad]

\* generateLines(mintime, maxtime, barpad, famstart, longev)
generateLines(mn, mx, pad, st, lg) ==
    CASE Arm(mn, mx, st, lg) = 1 -> Arm1(mn, mx, pad, st, lg)
      [] Arm(mn, mx, st, lg) = 2 -> Arm2(mn, mx, pad, st, lg)
      [] Arm(mn, mx, st, lg) = 3 -> Arm3(mn, mx, pad, st, lg)
      [] Arm(mn, mx, st, lg) = 4 -> Arm4(mn, mx, pad, st, lg)
      [] Arm(mn, mx, st, lg) = 5 -> Arm5(mn, mx, pad, st, lg)
      [] OTHER -> Defaults

MatrixIdle ==
    /\ store = {} /\ fam = <<>> /\ famcat = <<>> /\ Cind = <<>> /\ Cfull = <<>>
    /\ i = 0 /\ j = 0 /\ calls = <<>>
    /\ pc = "idle"

\* a call of generateLines on one window and one lifespan
CallGenerateLines ==
    /\ cpc = "call"
    /\ lines' = generateLines(mintime, maxtime, barpad, famstart, longev)
    /\ arm' = Arm(mintime, maxtime, famstart, longev)
    /\ cpc' = "done"
    /\ UNCHANGED <<mintime, maxtime, barpad, famstart, longev>>
    /\ UNCHANGED <<matrixVars, idemVars, occVars, passVars, colorVars, extVars>>

InitClip ==
    /\ mintime \in TimeGrid
    /\ maxtime \in TimeGrid
    /\ barpad \in PadGrid
    /\ famstart \in TimeGrid
    /\ longev \in LenGrid
    /\ lines = Defaults
    /\ arm = 0
    /\ cpc = "call"
    /\ MatrixIdle
    /\ IdemIdle /\ OccIdle /\ PassIdle /\ ColorIdle /\ ExtIdle

NextClip == CallGenerateLines

SpecClip == InitClip /\ [][NextClip]_vars

---------------------------------------------------------------------------
(* Properties of the matrix completion, checked under Spec *)

\* the stored and the completed matrix exist
Built == pc \in {"loop", "done"} \/ (pc = "raised" /\ calls # <<>>)

Members == {Ids(fam[k]) : k \in DOMAIN fam}

\* the store holds a coefficient for the unordered pair of ids x, y
Present(x, y) == \E r \in store : {r.id1, r.id2} = {x, y}
Lookup(x, y) == (CHOOSE r \in store : {r.id1, r.id2} = {x, y}).ccc

\* the member pairs the store holds a coefficient for
StoredPairs == {r \in store : r.id1 \in Members /\ r.id2 \in Members}

\* C(n,2)
NumPairs(n) == (n * (n - 1)) \div 2

\* the calls of xcorr1x1 on the index pair a, b, in either order
CallsOn(a, b) == {k \in 1 .. Len(calls) : {calls[k].i, calls[k].j} = {a, b}}

\* C1: the stored matrix Cind and the completed matrix Cfull are symmetric:
\* M[a,b] = M[b,a] for all indices a, b, for every family and every store.
C1_Symmetry ==
    Built => \A a, b \in DOMAIN fam :
                /\ Cind[a][b] = Cind[b][a]
                /\ Cfull[a][b] = Cfull[b][a]

\* a family of three is completed from a store that held 0.9 for one of its
\* pairs, with a comparison that returned 0.5
C1_Witness ==
    /\ pc = "done"
    /\ Size(fam) = 3
    /\ \E a, b \in DOMAIN fam : a # b /\ Cind[a][b] = 9
    /\ \E k \in 1 .. Len(calls) : calls[k].cor = 5

\* C2: the diagonal of the stored matrix and of the completed matrix is 1,
\* before, during and after the completion loop.
C2_DiagonalIdentity ==
    Built => \A a \in DOMAIN fam : Cind[a][a] = Unit /\ Cfull[a][a] = Unit

\* a family of three is completed from a store with two rows of its members,
\* with two comparisons made
C2_Witness ==
    /\ pc = "done"
    /\ Size(fam) = 3
    /\ Cardinality(StoredPairs) = 2
    /\ Len(calls) >= 1
    /\ \A a \in DOMAIN fam : Cfull[a][a] = Unit

\* C3: a completion of n members whose store holds a coefficient for k of the
\* member pairs calls xcorr1x1 exactly C(n,2) - k times, and never on a pair
\* the store holds a coefficient for.
C3_ExactComparatorCount ==
    pc = "done" =>
        /\ Len(calls) = NumPairs(Size(fam)) - Cardinality(StoredPairs)
        /\ \A k \in 1 .. Len(calls) :
              ~Present(Ids(famcat[calls[k].i]), Ids(famcat[calls[k].j]))

\* C4: within one completion xcorr1x1 is called at most once on each
\* unordered pair of members, and never on a member with itself.
C4_AtMostOnce ==
    /\ \A k \in 1 .. Len(calls) : calls[k].i # calls[k].j
    /\ \A a, b \in DOMAIN fam : Cardinality(CallsOn(a, b)) <= 1

\* all three pairs of a family of three were compared, one of them with the
\* coefficient 0
C4_Witness ==
    /\ pc = "done"
    /\ Len(calls) = 3
    /\ \E k \in 1 .. Len(calls) : calls[k].cor = 0

\* C5: famcat is the family sorted by event time, and Cind[a,b] is 1 on the
\* diagonal, the store's coefficient of the pair famcat[a], famcat[b] when the
\* store holds one, and 0 when it holds none.
C5_StoredDefinition ==
    Built =>
        /\ \A a, b \in DOMAIN fam :
              a < b => StartTimeMPL(famcat[a]) < StartTimeMPL(famcat[b])
        /\ {famcat[a] : a \in DOMAIN fam} = {fam[a] : a \in DOMAIN fam}
        /\ \A a, b \in DOMAIN fam :
              Cind[a][b] = IF a = b THEN Unit
                           ELSE IF Present(Ids(famcat[a]), Ids(famcat[b]))
                                THEN Lookup(Ids(famcat[a]), Ids(famcat[b]))
                                ELSE 0

\* a family of three whose member list is not in time order, with 0.9 stored
\* for one pair and nothing stored for another
C5_Witness ==
    /\ pc = "loop"
    /\ Size(fam) = 3
    /\ famcat # fam
    /\ \E a, b \in DOMAIN fam : a # b /\ Cind[a][b] = 9
    /\ \E a, b \in DOMAIN fam :
          a # b /\ ~Present(Ids(famcat[a]), Ids(famcat[b])) /\ Cind[a][b] = 0

\* the coefficient xcorr1x1 returned for the index pair a, b
Returned(a, b) == calls[CHOOSE k \in CallsOn(a, b) : TRUE].cor

\* C6: Cfull starts as a copy of Cind; after the completion a cell that is
\* not 0 in Cind has the same value in Cfull, an off-diagonal cell that is 0
\* in Cind holds in Cfull, on both sides of the diagonal, the coefficient
\* xcorr1x1 returned for that pair, and the completion never changes Cind.
C6_FullDefinition ==
    /\ [](pc = "done" =>
            \A a, b \in DOMAIN fam :
                /\ Cind[a][b] # 0 => Cfull[a][b] = Cind[a][b]
                /\ (a # b /\ Cind[a][b] = 0) =>
                      /\ CallsOn(a, b) # {}
                      /\ Cfull[a][b] = Returned(a, b)
                      /\ Cfull[b][a] = Returned(a, b))
    /\ [][(pc = "start" /\ pc' # "raised") => Cfull' = Cind']_vars
    /\ [][pc = "loop" => Cind' = Cind]_vars

\* a completion that kept a stored 0.9 and filled another cell with 0.5
C6_Witness ==
    /\ pc = "done"
    /\ \E a, b \in DOMAIN fam : Cind[a][b] = 9 /\ Cfull[a][b] = 9
    /\ \E a, b \in DOMAIN fam : Cind[a][b] = 0 /\ Cfull[a][b] = 5

\* C10: when xcorr1x1 fails for a pair, the completion goes on with the other
\* pairs and still produces Cfull: a failed call never ends plotReport.
C10_FailureContinues ==
    \A k \in 1 .. Len(calls) : ~calls[k].ok => pc \in {"loop", "done"}

---------------------------------------------------------------------------
(* Properties of generateLines, checked under SpecClip *)

\* the end of the lifespan
End == famstart + longev

\* the conditions of the rows A-E of the decision table, each taken alone
RowA == mintime <= famstart /\ maxtime >= End
RowB == mintime <= famstart /\ maxtime <= famstart
RowC == mintime <= famstart /\ famstart < maxtime /\ maxtime < End
RowD == mintime >= famstart /\ maxtime >= End /\ mintime <= End
RowE == mintime >= famstart /\ maxtime <= End
RowF == ~(RowA \/ RowB \/ RowC \/ RowD \/ RowE)

\* the window and the lifespan the table is about
ValidInput == mintime <= maxtime /\ barpad >= 0 /\ longev >= 0

\* the returned values are those of the table's row
IsRowA == /\ lines.add_line /\ ~lines.add_larrow /\ ~lines.add_rarrow
          /\ lines.x1 = famstart /\ lines.x2 = End
IsRowB == ~lines.add_line
IsRowC == /\ lines.add_line /\ ~lines.add_larrow /\ lines.add_rarrow
          /\ lines.x1 = famstart /\ lines.x2 = maxtime + barpad
IsRowD == /\ lines.add_line /\ lines.add_larrow /\ ~lines.add_rarrow
          /\ lines.x1 = mintime - barpad /\ lines.x2 = End
IsRowE == /\ lines.add_line /\ lines.add_larrow /\ lines.add_rarrow
          /\ lines.x1 = mintime - barpad /\ lines.x2 = maxtime + barpad

\* the two scenarios: window [100,200], padding 1
Scenario1 == /\ mintime = 100 /\ maxtime = 200 /\ barpad = 1
             /\ famstart = 100 /\ longev = 50
Scenario2 == /\ mintime = 100 /\ maxtime = 200 /\ barpad = 1
             /\ famstart = 50 /\ longev = 200

\* C7, as stated: whenever the condition of a row A-E holds, generateLines
\* returns the values of that row.
C7_EveryRowThatHolds ==
    (cpc = "done" /\ ValidInput) =>
        /\ RowA => IsRowA
        /\ RowB => IsRowB
        /\ RowC => IsRowC
        /\ RowD => IsRowD
        /\ RowE => IsRowE

\* C7, amended: generateLines returns the values of the first row, in the
\* order A, B, C, D, E, whose condition holds; scenario 1 gives the line
\* 100..150 without arrows and scenario 2 the line 99..201 with both arrows.
C7_FirstRowThatHolds ==
    (cpc = "done" /\ ValidInput) =>
        /\ RowA => IsRowA
        /\ (~RowA /\ RowB) => IsRowB
        /\ (~RowA /\ ~RowB /\ RowC) => IsRowC
        /\ (~RowA /\ ~RowB /\ ~RowC /\ RowD) => IsRowD
        /\ (~RowA /\ ~RowB /\ ~RowC /\ ~RowD /\ RowE) => IsRowE
        /\ Scenario1 => (IsRowA /\ lines.x1 = 100 /\ lines.x2 = 150)
        /\ Scenario2 => (IsRowE /\ lines.x1 = 99 /\ lines.x2 = 201)

\* scenario 2 was clipped on both sides
C7_Witness ==
    /\ cpc = "done"
    /\ Scenario2
    /\ lines.add_line /\ lines.add_larrow /\ lines.add_rarrow
    /\ lines.x1 = 99 /\ lines.x2 = 201

\* the number of conditions A-F that hold
RowsHolding ==
    Cardinality({k \in 1 .. 6 :
        \/ k = 1 /\ RowA
        \/ k = 2 /\ RowB
        \/ k = 3 /\ RowC
        \/ k = 4 /\ RowD
        \/ k = 5 /\ RowE
        \/ k = 6 /\ RowF})

\* the first row whose condition holds: 1..5 for A..E, 0 for F
FirstRow ==
    IF RowA THEN 1 ELSE IF RowB THEN 2 ELSE IF RowC THEN 3
    ELSE IF RowD THEN 4 ELSE IF RowE THEN 5 ELSE 0

\* C8, as stated: exactly one of the conditions A-F holds for every window
\* with min <= max and every lifespan of length >= 0.
C8_ExactlyOneRow ==
    (cpc = "done" /\ ValidInput) => RowsHolding = 1

\* C8, amended: at least one of the conditions A-F holds; generateLines runs
\* one arm only, that of the first condition that holds; and exactly one
\* condition holds whenever min # start and max # end.
C8_FirstRowRuns ==
    (cpc = "done" /\ ValidInput) =>
        /\ RowsHolding >= 1
        /\ arm = FirstRow
        /\ (mintime # famstart /\ maxtime # End) => RowsHolding = 1

\* a lifespan that starts with the window and ends inside it: the conditions
\* of rows A and D both hold and generateLines ran the first arm
C8_Witness ==
    /\ cpc = "done"
    /\ ValidInput
    /\ mintime = famstart /\ maxtime > End /\ longev > 0
    /\ RowA /\ RowD
    /\ arm = 1

\* C9: when generateLines draws a line for a window with min <= max, the
\* line lies inside the padded window: min - padding <= x1 <= x2 <= max + padding.
C9_EndpointsBounded ==
    (cpc = "done" /\ ValidInput /\ lines.add_line) =>
        /\ mintime - barpad <= lines.x1
        /\ lines.x1 <= lines.x2
        /\ lines.x2 <= maxtime + barpad

\* a lifespan that starts inside the window and ends after it, drawn up to
\* the padded right edge
C9_Witness ==
    /\ cpc = "done"
    /\ ValidInput
    /\ barpad = 1
    /\ mintime < famstart /\ famstart < maxtime /\ maxtime < End
    /\ lines.add_line /\ lines.add_rarrow
    /\ lines.x2 = maxtime + barpad

\* C12, as stated: an inverted window (min > max) is rejected before any
\* computation, so generateLines never returns draw = true for one.
C12_InvertedWindowRejected ==
    (cpc = "done" /\ mintime > maxtime) => ~lines.add_line

---------------------------------------------------------------------------
(* Completing a family twice, the store updated in between *)

\* the row of ctable for the pair a call computed, the smaller id first
CallRow(c) ==
    LET a == Ids(famcat[c.i])
        b == Ids(famcat[c.j])
    IN  [id1 |-> IF a < b THEN a ELSE b,
         id2 |-> IF a < b THEN b ELSE a,
         ccc |-> c.cor]

\* the store after every coefficient the run computed has been inserted,
\* a new row replacing the row of the same pair
Inserted(s, cs) ==
    LET new == {CallRow(cs[k]) : k \in DOMAIN cs}
    IN  {r \in s : ~\E q \in new : q.id1 = r.id1 /\ q.id2 = r.id2} \cup new

\* the first completion is over: its coefficients are inserted into the
\* store and plotReport is entered again for the same family
InsertAndRerun ==
    /\ pc = "done"
    /\ run = 1
    /\ store' = Inserted(store, calls)
    /\ Cfull1' = Cfull
    /\ run' = 2
    /\ calls' = <<>>
    /\ famcat' = <<>> /\ Cind' = <<>> /\ Cfull' = <<>>
    /\ i' = 0 /\ j' = 0
    /\ pc' = "start"
    /\ UNCHANGED fam
    /\ UNCHANGED <<clipVars, occVars, passVars, colorVars, extVars>>

NextIdem == Next \/ InsertAndRerun

SpecIdem == Init /\ [][NextIdem]_vars

\* C11, as stated: the second completion of a family, run on the store that
\* holds every coefficient of the first, invokes the comparator for no pair
\* and returns the Full matrix of the first.
C11_Idempotence ==
    run = 2 =>
        /\ calls = <<>>
        /\ pc = "done" => Cfull = Cfull1

---------------------------------------------------------------------------
(* plotFamilyOccurrence: the colour of a bin in rate mode *)

MaxBins == 2

\* times and bin widths are counted in half days: one day is two units
Day == 2

\* binsize: half a day or a day
BinGrid == {1, Day}

\* the event counts of the non-empty bins the colours are computed for
CountGrid == (1 .. 12) \cup {31, 32, 50, 99, 100, 101, 316, 317, 999, 1000, 1001, 2000}

\* logarithms and scaled colours are kept in millionths
Micro == 1000000

\* np.log10 of a count, in millionths, rounded down
Log10Micro ==
    1 :> 0 @@ 2 :> 301029 @@ 3 :> 477121 @@ 4 :> 602059 @@
    5 :> 698970 @@ 6 :> 778151 @@ 7 :> 845098 @@ 8 :> 903089 @@
    9 :> 954242 @@ 10 :> 1000000 @@ 11 :> 1041392 @@ 12 :> 1079181 @@
    31 :> 1491361 @@ 32 :> 1505149 @@ 50 :> 1698970 @@ 99 :> 1995635 @@
    100 :> 2000000 @@ 101 :> 2004321 @@ 316 :> 2499687 @@ 317 :> 2501059 @@
    999 :> 2999565 @@ 1000 :> 3000000 @@ 1001 :> 3000434 @@ 2000 :> 3301029

\* a colour index that is not capped
NoMin(a, b) == b

\* min(255, x)
Min2(a, b) == IF a < b THEN a ELSE b

\* a divisor that does not look at the bin width
DivisorSubDay(bs) == 2

\* if binsize >= 1: 255*(i/3), else: 255*(i/2)
Divisor(bs) == IF bs >= Day THEN 3 ELSE 2

\* int(min(255,255*(i/d))) for i = log10 of the count c
RateIndex(c, bs) ==
    Min2(255 * Micro, (255 * Log10Micro[c]) \div Divisor(bs)) \div Micro

\* histlog = np.log10(hist[hist>0]); ind = [int(min(255,255*(i/d))) for i in histlog]
ComputeRateColors ==
    /\ kpc = "call"
    /\ ind' = [k \in DOMAIN hist |-> RateIndex(hist[k], binsize)]
    /\ kpc' = "done"
    /\ UNCHANGED <<hist, binsize>>
    /\ UNCHANGED <<ftable, minplot, colorby, useBokeh, clustNum, nrow, d1, fig, opc>>
    /\ UNCHANGED <<matrixVars, clipVars, idemVars, passVars, extVars>>

InitColor ==
    /\ hist \in UNION {[1 .. n -> CountGrid] : n \in 1 .. MaxBins}
    /\ binsize \in BinGrid
    /\ ind = <<>>
    /\ kpc = "call"
    /\ ftable = <<>> /\ minplot = 0 /\ colorby = "rate"
    /\ useBokeh = TRUE /\ clustNum = 0 /\ nrow = 0 /\ d1 = <<>> /\ fig = <<>>
    /\ opc = "idle"
    /\ MatrixIdle /\ ClipIdle /\ IdemIdle /\ PassIdle /\ ExtIdle

NextColor == ComputeRateColors

SpecColor == InitColor /\ [][NextColor]_vars

\* C18: in rate mode the colour index of a bin with c >= 1 events is the
\* integer floor of min(255, 255*log10(c)/d), d = 3 for a bin width of a day
\* or more and d = 2 below; it lies in 0..255, is 0 for c = 1 and 255 for
\* every c >= 10^d.
C18_RateIndex ==
    kpc = "done" =>
        \A k \in DOMAIN hist :
            LET c == hist[k]
                d == IF binsize >= Day THEN 3 ELSE 2
                v == ind[k]
            IN  /\ v \in 0 .. 255
                /\ c = 1 => v = 0
                /\ c >= 10 ^ d => v = 255
                /\ v < 255 =>
                     /\ v * d * Micro <= 255 * Log10Micro[c]
                     /\ 255 * Log10Micro[c] < (v + 1) * d * Micro
                /\ v = 255 => Log10Micro[c] >= d * Micro

\* a day-wide bin with 2000 events next to one with 999: capped at 255, and
\* just below the cap
C18_Witness ==
    /\ kpc = "done"
    /\ binsize = Day
    /\ hist = <<2000, 999>>
    /\ ind = <<255, 254>>

\* C19, as stated: a bin width of one day and counts 2 and 50 give the
\* colour indices 59 and 146, up to rounding.
C19_Scenario4Stated ==
    (kpc = "done" /\ binsize = Day /\ hist = <<2, 50>>) =>
        /\ ind[1] \in 58 .. 60
        /\ ind[2] \in 145 .. 147

\* C19, amended: a bin width of one day and counts 2 and 50 give the colour
\* indices 25 and 144, the floors of 255*log10(2)/3 and 255*log10(50)/3.
C19_Scenario4 ==
    (kpc = "done" /\ binsize = Day /\ hist = <<2, 50>>) => ind = <<25, 144>>

\* the two bins of scenario 4, coloured
C19_Witness ==
    /\ kpc = "done"
    /\ binsize = Day
    /\ hist = <<2, 50>>
    /\ Len(ind) = 2

---------------------------------------------------------------------------
(* plotFamilyOccurrence: the bins of a family *)

MaxEvents == 4
MaxClust  == 2

\* the rows of rtable that belong to a family
Events == 0 .. (MaxEvents - 1)

\* dt = rtable.cols.startTimeMPL[:], in half days
Dt(r) == StartTimeMPL(r)

\* fi = np.nanmean(rtable.cols.FI[:], axis=1), in tenths
Fi(r) == 3 * r - 4

\* opt.fispanlow, opt.fispanhigh, in tenths
fispanlow  == -5
fispanhigh == 5

\* ftable: every row of rtable is a member of exactly one family
Ftables == UNION {{f \in [0 .. (nc - 1) -> (SUBSET Events) \ {{}}] :
                     /\ \A a, b \in 0 .. (nc - 1) : a # b => f[a] \cap f[b] = {}
                     /\ UNION {f[a] : a \in 0 .. (nc - 1)} = Events} :
                  nc \in 1 .. MaxClust}

\* ftable.attrs.nClust
nClust == Cardinality(DOMAIN ftable)

\* min(dt[members]), max(dt[members])
MinDt(S) == CHOOSE t \in {Dt(r) : r \in S} : \A r \in S : t <= Dt(r)
MaxDt(S) == CHOOSE t \in {Dt(r) : r \in S} : \A r \in S : t >= Dt(r)

\* ftable.cols.startTime and ftable.cols.longevity of a family
FamStarts(S) == MinDt(S)
Longevity(S) == MaxDt(S) - MinDt(S)

\* np.arange(min, max+binsize, binsize): the number of bin edges, the edge k
NumEdges(S, bs) == (MaxDt(S) - MinDt(S) + 2 * bs - 1) \div bs
Edge(mn, bs, k) == mn + k * bs

\* np.histogram: bin k holds edge k <= t < edge k+1, and the last bin holds
\* its right edge too
InBin(mn, bs, last, k, t) ==
    /\ Edge(mn, bs, k) <= t
    /\ \/ t < Edge(mn, bs, k + 1)
       \/ k = last /\ t = Edge(mn, bs, k + 1)

\* the events np.histogram counts in bin k, and hist[k]
Counted(S, bs, k) ==
    LET mn   == MinDt(S)
        last == NumEdges(S, bs) - 2
    IN  {r \in S : InBin(mn, bs, last, k, Dt(r))}
HistAt(S, bs, k) == Cardinality(Counted(S, bs, k))

\* np.where(hist>0): the bins that are not empty, in order
NonEmptyBins(S, bs) ==
    SelectSeq([k \in 1 .. (NumEdges(S, bs) - 1) |-> k - 1],
              LAMBDA k : HistAt(S, bs, k) > 0)

\* d1 = h[np.where(hist>0)], and hist[hist>0]
D1(S, bs) ==
    LET ne == NonEmptyBins(S, bs)
        mn == MinDt(S)
    IN  [x \in 1 .. Len(ne) |-> Edge(mn, bs, ne[x])]
HistPos(S, bs) ==
    LET ne == NonEmptyBins(S, bs)
    IN  [x \in 1 .. Len(ne) |-> HistAt(S, bs, ne[x])]

RECURSIVE SumFi(_)
\* np.sum(fi[...]) over a set of rows
SumFi(S) ==
    IF S = {} THEN 0
    ELSE LET r == CHOOSE x \in S : TRUE IN Fi(r) + SumFi(S \ {r})

\* idxs = np.where(np.logical_and(dt[members]>=h[i], dt[members]<h[i]+binsize))
Idxs(S, bs, left) == {r \in S : Dt(r) >= left /\ Dt(r) < left + bs}

\* fisum[i] = np.sum(fi[members[idxs]])
FiSum(S, bs, left) == SumFi(Idxs(S, bs, left))

\* int(max(min(255,255*(i-low)/(high-low)),0)) for i = fisum/hist
FiIndex(fisum, cnt) ==
    LET num == 255 * (fisum - fispanlow * cnt)
        den == cnt * (fispanhigh - fispanlow)
    IN  IF num <= 0 THEN 0 ELSE Min2(255, num \div den)

\* ind: the colour of every non-empty bin
Ind(S, bs, cb) ==
    LET h  == D1(S, bs)
        hh == HistPos(S, bs)
    IN  [x \in 1 .. Len(h) |->
            IF cb = "rate" THEN RateIndex(hh[x], bs)
            ELSE FiIndex(FiSum(S, bs, h[x]), hh[x])]

---------------------------------------------------------------------------
(* plotFamilyOccurrence: the loop over the families *)

MinplotGrid == {0, 3}

\* mintime: the time of an event, or half a day before the first event
MinTimes == {Dt(1), Dt(2), Dt(MaxEvents - 1) - 1}

\* maxtime: half a day before or after the last event
MaxTimes == {Dt(0) - 1, Dt(0) + 1}

\* a figure nothing has been added to
EmptyFig == [lines |-> <<>>, larrows |-> <<>>, rarrows |-> <<>>,
             blocks |-> <<>>, labels |-> <<>>, boxes |-> <<>>]

\* a loop that plots families of every size
SizeOkAlways(S, mp) == TRUE

\* line 547: if len(dt[members]) >= minplot
SizeOk(S, mp) == Cardinality(S) >= mp

\* line 549: if max(dt[members])>mintime
Recent(S, mn) == MaxDt(S) > mn

Included(S) == SizeOk(S, minplot) /\ Recent(S, mintime)

\* lines 551-552: the call of generateLines for a family
FamLines(S) == generateLines(mintime, maxtime, barpad, FamStarts(S), Longevity(S))

\* lines 554-565: the lifespan line at row n
WithLine(F, S, n) ==
    IF FamLines(S).add_line
    THEN [F EXCEPT !.lines = Append(@, [x1 |-> FamLines(S).x1,
                                        x2 |-> FamLines(S).x2, y |-> n])]
    ELSE F

\* lines 567-579: the left arrow, which ends at mintime-barpad
WithLarrow(F, S, n) ==
    IF FamLines(S).add_line /\ FamLines(S).add_larrow
    THEN [F EXCEPT !.larrows = Append(@, [x |-> mintime - barpad, y |-> n])]
    ELSE F

\* lines 581-585: the right arrow is drawn on ax, which is None in Bokeh mode
RarrowRaises(S) == useBokeh /\ FamLines(S).add_line /\ FamLines(S).add_rarrow

WithRarrow(F, S, n) ==
    IF FamLines(S).add_line /\ FamLines(S).add_rarrow
    THEN [F EXCEPT !.rarrows = Append(@, [x |-> maxtime + barpad, y |-> n])]
    ELSE F

\* line 588 and lines 599-600: the bins that get a block
BlockShown(left) ==
    IF useBokeh THEN left > mintime
    ELSE mintime <= left /\ left <= maxtime

\* lines 589-592 and 601-602: the blocks of a family at row n
Blocks(S, n) ==
    LET h      == D1(S, binsize)
        colors == Ind(S, binsize, colorby)
    IN  SelectSeq([x \in 1 .. Len(h) |->
                      [left  |-> h[x],
                       right |-> h[x] + binsize,
                       color |-> colors[x],
                       y     |-> n]],
                  LAMBDA b : BlockShown(b.left))

WithBlocks(F, S, n) == [F EXCEPT !.blocks = @ \o Blocks(S, n)]

\* lines 603-604: x2 moves to the right edge of a block that ends after it
X2(S) ==
    LET shown == Blocks(S, 0)
        ends  == {FamLines(S).x2} \cup {shown[x].right : x \in 1 .. Len(shown)}
    IN  CHOOSE e \in ends : \A u \in ends : e >= u

\* line 608: max(d2) raises for a family without a bin
LabelRaises(S) == useBokeh /\ Len(D1(S, binsize)) = 0

\* lines 607-613: the label with the member count
WithLabel(F, S, n) ==
    LET h == D1(S, binsize)
    IN  [F EXCEPT !.labels =
            Append(@, [x |-> IF useBokeh THEN h[Len(h)] + binsize ELSE X2(S),
                       y |-> n, text |-> Cardinality(S)])]

\* max(a, b)
Max2(a, b) == IF a > b THEN a ELSE b

\* a box that starts at the family's first event
BoxLeftUnclamped(S) == MinDt(S) - barpad

\* max(min(dt[members]),mintime)-barpad
BoxLeft(S) == Max2(MinDt(S), mintime) - barpad

\* lines 615-634: the hover patch of a family, Bokeh only; ys is n-0.5, n+0.5,
\* kept here as the doubled values 2n-1 and 2n+1
WithBox(F, S, n, fn) ==
    IF useBokeh
    THEN [F EXCEPT !.boxes =
             Append(@, [left |-> BoxLeft(S), right |-> MaxDt(S) + barpad,
                        ylow2 |-> 2 * n - 1, yhigh2 |-> 2 * n + 1,
                        famnum |-> fn])]
    ELSE F

\* lines 512-545: members, hist, h, d1, ind of the family the loop is at
Binned ==
    /\ hist' = HistPos(ftable[clustNum], binsize)
    /\ d1' = D1(ftable[clustNum], binsize)
    /\ ind' = Ind(ftable[clustNum], binsize, colorby)

OccurNext ==
    /\ clustNum' = clustNum + 1
    /\ opc' = IF clustNum + 1 = nClust THEN "done" ELSE "loop"

OccurUnchanged ==
    /\ UNCHANGED <<ftable, minplot, binsize, colorby, useBokeh>>
    /\ UNCHANGED <<mintime, maxtime, barpad, famstart, longev, lines, arm, cpc>>
    /\ UNCHANGED <<matrixVars, idemVars, passVars, kpc, extVars>>

\* lines 510-547 and 549: a family that is not plotted
OccurExclude ==
    /\ opc = "loop"
    /\ ~Included(ftable[clustNum])
    /\ Binned
    /\ UNCHANGED <<nrow, fig>>
    /\ OccurNext
    /\ OccurUnchanged

\* lines 510-636: a family that is plotted at row n
OccurPlot ==
    /\ opc = "loop"
    /\ Included(ftable[clustNum])
    /\ ~RarrowRaises(ftable[clustNum])
    /\ ~LabelRaises(ftable[clustNum])
    /\ Binned
    /\ LET S == ftable[clustNum]
           a == WithLine(fig, S, nrow)
           b == WithLarrow(a, S, nrow)
           c == WithRarrow(b, S, nrow)
           d == WithBlocks(c, S, nrow)
           e == WithLabel(d, S, nrow)
       IN  fig' = WithBox(e, S, nrow, clustNum)
    /\ nrow' = nrow + 1
    /\ OccurNext
    /\ OccurUnchanged

\* lines 510-608: a family whose plotting raises; what was drawn before the
\* failing statement stays in the figure, and the loop is left
OccurRaises ==
    /\ opc = "loop"
    /\ Included(ftable[clustNum])
    /\ RarrowRaises(ftable[clustNum]) \/ LabelRaises(ftable[clustNum])
    /\ Binned
    /\ LET S == ftable[clustNum]
           a == WithLine(fig, S, nrow)
           b == WithLarrow(a, S, nrow)
       IN  fig' = IF RarrowRaises(S) THEN b ELSE WithBlocks(b, S, nrow)
    /\ opc' = "raised"
    /\ UNCHANGED <<clustNum, nrow>>
    /\ OccurUnchanged

InitOccur ==
    /\ ftable \in Ftables
    /\ mintime \in MinTimes
    /\ maxtime \in MaxTimes
    /\ mintime <= maxtime
    /\ barpad \in PadGrid
    /\ minplot \in MinplotGrid
    /\ binsize \in BinGrid
    /\ colorby \in {"rate", "fi"}
    /\ useBokeh \in BOOLEAN
    /\ clustNum = 0 /\ nrow = 0
    /\ hist = <<>> /\ d1 = <<>> /\ ind = <<>>
    /\ fig = EmptyFig
    /\ opc = "loop"
    /\ famstart = 0 /\ longev = 0 /\ lines = <<>> /\ arm = 0 /\ cpc = "idle"
    /\ kpc = "idle"
    /\ MatrixIdle /\ IdemIdle /\ PassIdle /\ ExtIdle

NextOccur == OccurExclude \/ OccurPlot \/ OccurRaises

SpecOccur == InitOccur /\ [][NextOccur]_vars

---------------------------------------------------------------------------
(* Properties of the occurrence timeline, checked under SpecOccur *)

\* the families plotFamilyOccurrence plots: lines 547 and 549
IncludedFams == {c \in DOMAIN ftable : Included(ftable[c])}

\* C14: a family with fewer than minplot members adds no line, arrow, block,
\* label or bounding box to the figure and takes no row, whatever its event
\* times and colours; and no bounding box ever carries the number of such a
\* family.
C14_SizeExclusion ==
    /\ [][(opc = "loop" /\ Cardinality(ftable[clustNum]) < minplot) =>
            (fig' = fig /\ nrow' = nrow)]_vars
    /\ [](\A k \in DOMAIN fig.boxes :
            Cardinality(ftable[fig.boxes[k].famnum]) >= minplot)

\* a pass over two families: the first, with an event after mintime, is below
\* minplot and left out; the second got row 0
C14_Witness ==
    /\ opc = "done"
    /\ nClust = 2
    /\ Cardinality(ftable[0]) < minplot
    /\ Recent(ftable[0], mintime)
    /\ nrow = 1
    /\ Len(fig.labels) = 1 /\ fig.labels[1].y = 0

\* C15, as stated: a family with at least minplot members is left out if and
\* only if its most recent event is earlier than mintime; with its most
\* recent event at or after mintime it is plotted.
C15_TimeExclusion ==
    [][(opc = "loop" /\ Cardinality(ftable[clustNum]) >= minplot) =>
         ((fig' = fig /\ nrow' = nrow /\ opc' # "raised")
            <=> MaxDt(ftable[clustNum]) < mintime)]_vars

\* the k-th family plotted, k = 1, 2, ...
KthIncluded(k) ==
    CHOOSE c \in IncludedFams : Cardinality({b \in IncludedFams : b < c}) = k - 1

\* C16, as stated: when the pass is over, the plotted families hold the rows
\* 0, 1, ..., k-1 in the order of their family numbers, one label each, and in
\* Bokeh mode one bounding box each, the i-th box spanning the rows i-0.5 to
\* i+0.5 and carrying the number of the i-th plotted family.
C16_RowAssignment ==
    opc \in {"done", "raised"} =>
        /\ nrow = Cardinality(IncludedFams)
        /\ Len(fig.labels) = Cardinality(IncludedFams)
        /\ \A k \in DOMAIN fig.labels : fig.labels[k].y = k - 1
        /\ useBokeh =>
             /\ Len(fig.boxes) = Cardinality(IncludedFams)
             /\ \A k \in DOMAIN fig.boxes :
                  /\ fig.boxes[k].ylow2 = 2 * (k - 1) - 1
                  /\ fig.boxes[k].yhigh2 = 2 * (k - 1) + 1
                  /\ fig.boxes[k].famnum = KthIncluded(k)

\* C17, as stated: the left edge of a bounding box is never earlier than
\* mintime, for every padding >= 0.
C17_LeftEdgeInWindow ==
    opc # "idle" =>
        \A k \in DOMAIN fig.boxes : fig.boxes[k].left >= mintime

\* C17, amended: the left edge of a family's bounding box is the later of the
\* family's first event and mintime, less the padding; it is never earlier
\* than mintime - barpad, and never earlier than mintime when barpad is 0.
C17_LeftEdgeInPaddedWindow ==
    opc # "idle" =>
        \A k \in DOMAIN fig.boxes :
            LET b     == fig.boxes[k]
                first == MinDt(ftable[b.famnum])
            IN  /\ b.left = (IF first > mintime THEN first ELSE mintime) - barpad
                /\ b.left >= mintime - barpad
                /\ barpad = 0 => b.left >= mintime

\* a family that starts before mintime, plotted with padding 1: its box
\* starts at mintime - 1
C17_Witness ==
    /\ opc = "done"
    /\ barpad = 1
    /\ \E k \in DOMAIN fig.boxes :
         /\ MinDt(ftable[fig.boxes[k].famnum]) < mintime
         /\ fig.boxes[k].left = mintime - 1

\* C20, as stated: in fi mode the colour of a non-empty bin comes from the
\* mean FI of exactly the events counted in the bin: the FI sum is taken over
\* the events the count is taken over, also for an event on the right edge of
\* the last bin.
C20_FiMean ==
    [][(opc = "loop" /\ colorby = "fi") =>
         \A x \in DOMAIN ind' :
            LET S       == ftable[clustNum]
                counted == Counted(S, binsize, NonEmptyBins(S, binsize)[x])
            IN  /\ Cardinality(counted) = hist'[x]
                /\ ind'[x] = FiIndex(SumFi(counted), hist'[x])]_vars

---------------------------------------------------------------------------
(* plotFamilies: the pass over the families to plot again *)

\* ctable during the pass: at most one row
PassStores == {s \in Ctables : Cardinality(s) <= 1}

\* fam = np.fromstring(ftable[cnum]['members']): the members as a list
RECURSIVE FamList(_)
FamList(S) ==
    IF S = {} THEN <<>>
    ELSE LET r == CHOOSE x \in S : \A y \in S : x >= y
             f == FamList(S \ {r})
         IN  [k \in 0 .. (Cardinality(S) - 1) |->
                 IF k = Cardinality(S) - 1 THEN r ELSE f[k]]

\* line 1310: max(spacing) raises when spacing = np.diff(catalog) is empty
SpacingRaises(S) == Cardinality(S) = 1

\* lines 1317-1320: building r1 raises for a row of ctable that pairs a
\* member with an event outside the family
StoreRaises(S) == RaisesIndexError(store, FamList(S))

PassNext ==
    /\ cnum' = cnum + 1
    /\ ppc' = IF cnum + 1 = nClust THEN "done" ELSE "loop"

PassUnchanged ==
    /\ UNCHANGED <<ftable, store, printme, sliceFails>>
    /\ UNCHANGED <<fam, famcat, Cind, Cfull, i, j, calls, pc>>
    /\ UNCHANGED <<minplot, binsize, colorby, useBokeh, clustNum, nrow, d1, fig, opc>>
    /\ UNCHANGED <<clipVars, idemVars, colorVars, extVars>>

\* lines 1163-1168: a waveform slice that raises is caught, and a message
\* naming the family is printed
Diagnosed == IF cnum \in sliceFails THEN diag \cup {cnum} ELSE diag

\* lines 1089-1091: a family with printme 0 is passed over
PassOver ==
    /\ ppc = "loop"
    /\ ~printme[cnum]
    /\ UNCHANGED <<plotted, diag>>
    /\ PassNext
    /\ PassUnchanged

\* lines 1093-1094 and plotSingleFamily up to plt.savefig
plotSingleFamily ==
    /\ ppc = "loop"
    /\ printme[cnum]
    /\ ~SpacingRaises(ftable[cnum])
    /\ ~StoreRaises(ftable[cnum])
    /\ diag' = Diagnosed
    /\ plotted' = plotted \cup {cnum}
    /\ PassNext
    /\ PassUnchanged

\* plotSingleFamily raising outside its try: plotFamilies has no handler
\* around the call, and the exception leaves the loop
plotSingleFamilyRaises ==
    /\ ppc = "loop"
    /\ printme[cnum]
    /\ SpacingRaises(ftable[cnum]) \/ StoreRaises(ftable[cnum])
    /\ diag' = Diagnosed
    /\ ppc' = "raised"
    /\ UNCHANGED <<plotted, cnum>>
    /\ PassUnchanged

InitPass ==
    /\ ftable \in Ftables
    /\ store \in PassStores
    /\ printme \in [DOMAIN ftable -> BOOLEAN]
    /\ sliceFails \in {{}} \cup {{c} : c \in DOMAIN ftable}
    /\ cnum = 0 /\ plotted = {} /\ diag = {}
    /\ ppc = "loop"
    /\ fam = <<>> /\ famcat = <<>> /\ Cind = <<>> /\ Cfull = <<>>
    /\ i = 0 /\ j = 0 /\ calls = <<>> /\ pc = "idle"
    /\ minplot = 0 /\ binsize = 0 /\ colorby = "rate"
    /\ useBokeh = TRUE /\ clustNum = 0 /\ nrow = 0 /\ d1 = <<>> /\ fig = <<>>
    /\ opc = "idle"
    /\ ClipIdle /\ IdemIdle /\ ColorIdle /\ ExtIdle

NextPass == PassOver \/ plotSingleFamily \/ plotSingleFamilyRaises

SpecPass == InitPass /\ [][NextPass]_vars

\* C13, as stated: the pass over the families runs to its end whatever
\* happens in one family, and when it is over every family to plot has been
\* plotted or has got a diagnostic.
C13_FaultIsolation ==
    ppc \in {"done", "raised"} =>
        /\ ppc = "done"
        /\ \A c \in DOMAIN ftable : printme[c] => (c \in plotted \/ c \in diag)

---------------------------------------------------------------------------
(* Properties of the bins and of the rendering, checked under SpecOccur *)

RECURSIVE SeqSum(_)
\* the sum of a sequence of numbers
SeqSum(q) == IF Len(q) = 0 THEN 0 ELSE q[1] + SeqSum(Tail(q))

\* C21, as stated: the non-empty bins of a family are half-open intervals
\* [left, left+binsize) that start at min(T) plus a multiple of binsize; each
\* count is the number of events whose time lies in the interval, every event
\* lies in one of them, and the counts sum to the member count - also when all
\* events share one timestamp or max(T)-min(T) is a multiple of binsize.
C21_BinPartition ==
    [][opc = "loop" =>
         LET S == ftable[clustNum]
         IN  /\ \A x \in DOMAIN hist' :
                  /\ hist'[x] > 0
                  /\ (d1'[x] - MinDt(S)) % binsize = 0
                  /\ hist'[x] = Cardinality({r \in S : /\ d1'[x] <= Dt(r)
                                                       /\ Dt(r) < d1'[x] + binsize})
             /\ \A r \in S : \E x \in DOMAIN d1' : /\ d1'[x] <= Dt(r)
                                                   /\ Dt(r) < d1'[x] + binsize
             /\ SeqSum(hist') = Cardinality(S)]_vars

\* 1 for TRUE, 0 for FALSE
Count(b) == IF b THEN 1 ELSE 0

\* C22, as stated: for every plotted family, in Bokeh mode as in Matplotlib
\* mode, the figure gets a lifespan line iff generateLines returned add_line,
\* a left arrow iff it returned add_larrow and a right arrow iff it returned
\* add_rarrow.
C22_RenderingFollowsClipper ==
    [][(opc = "loop" /\ Included(ftable[clustNum])) =>
         LET gl == FamLines(ftable[clustNum])
         IN  /\ Len(fig'.lines) = Len(fig.lines) + Count(gl.add_line)
             /\ Len(fig'.larrows) = Len(fig.larrows) + Count(gl.add_larrow)
             /\ Len(fig'.rarrows) = Len(fig.rarrows) + Count(gl.add_rarrow)]_vars

---------------------------------------------------------------------------
(* Further properties of generateLines, checked under SpecClip *)

\* C25, as stated: for a window with min <= max and a lifespan of length >= 0,
\* generateLines returns add_line exactly when the closed lifespan
\* [start, end] and the closed window [min, max] share a point.
C25_DrawIffOverlap ==
    (cpc = "done" /\ ValidInput) =>
        (lines.add_line <=> (famstart <= maxtime /\ mintime <= End))

\* C25, amended: generateLines returns add_line exactly when the lifespan and
\* the window share a point, except for a lifespan of positive length that
\* starts exactly at max, which is not drawn; a lifespan that ends exactly at
\* min is drawn.
C25_DrawIffOverlapLeftOfMax ==
    (cpc = "done" /\ ValidInput) =>
        /\ lines.add_line <=>
             /\ mintime <= End
             /\ famstart < maxtime \/ (famstart = maxtime /\ longev = 0)
        /\ (famstart = maxtime /\ longev > 0) => ~lines.add_line
        /\ (End = mintime) => lines.add_line

\* a lifespan of positive length that starts at max: the window and the
\* lifespan touch, and no line is drawn
C25_Witness ==
    /\ cpc = "done"
    /\ ValidInput
    /\ mintime < maxtime
    /\ famstart = maxtime /\ longev > 0
    /\ arm = 2
    /\ ~lines.add_line

---------------------------------------------------------------------------
(* Further properties of the stored matrix, checked under Spec *)

\* the rows of ctable whose two ids are both members of the family
MemberRows(s, f) == {r \in s : InIdf(f, r.id1) /\ InIdf(f, r.id2)}

\* C28, as stated: the stored matrix is built without error for every store,
\* and it is the matrix built from the rows whose two ids are both members of
\* the family; a row that pairs a member with a non-member changes nothing.
C28_OutsideRowsIgnored ==
    pc # "start" =>
        /\ Cind # <<>>
        /\ Cind = Reindex(CMatrix(MemberRows(store, fam), fam), Catalogind(fam))

---------------------------------------------------------------------------
(* plotReport: the optional reordering and the matrix written to file *)

\* fam of plotReport: the members of a family as np.fromstring returns them
SortedFams == {FamList(S) : S \in (SUBSET Rows) \ {{}}}

\* rtable.cols.startTime[r]: the start time of event r, a value that is not its id
StartTime(r) == 2 * StartTimeMPL(r)

\* the permutations of 0 .. n-1
Perms(n) == {p \in [0 .. (n - 1) -> 0 .. (n - 1)] :
               \A a, b \in 0 .. (n - 1) : a # b => p[a] # p[b]}

RECURSIVE ColSum(_, _, _)
\* sum(D) for D = 1-Cfull: the sum of column b over the rows 0 .. k
ColSum(M, b, k) ==
    IF k < 0 THEN 0 ELSE (Unit - M[k][b]) + ColSum(M, b, k - 1)

\* s = np.argsort(sum(D))[::-1]: the columns by falling sum, ties in any order
SortOrders(M) ==
    LET n == Cardinality(DOMAIN M)
        v == [b \in DOMAIN M |-> ColSum(M, b, n - 1)]
    IN  {p \in Perms(n) : \A a, b \in 0 .. (n - 1) : a < b => v[p[a]] >= v[p[b]]}

\* order = np.array(ttree._ordered_list): a permutation of 0 .. n-1
OpticsOrders(M) == Perms(Cardinality(DOMAIN M))

\* a member list that is left as it is
TakeNone(v, p) == v

\* famcat[s]
Take(v, p) == [k \in DOMAIN p |-> v[p[k]]]

\* the names np.save writes to: the format strings do not use fnum
CfullFile(fn)   == "0-Cfull.npy"
EvTimesFile(fn) == "0-evTimes.npy"

\* np.save(name, content)
Save(F, name, content) ==
    [x \in (DOMAIN F) \cup {name} |-> IF x = name THEN content ELSE F[x]]

\* event times saved in the order of the time-sorted family
SavedTimesByTime(fc) == [k \in DOMAIN fc |-> StartTime(Famcat(fam)[k])]

\* startTime[famcat]
SavedTimes(fc) == [k \in DOMAIN fc |-> StartTime(fc[k])]

\* lines 1826-1853: the OPTICS ordering when ordered is set, and the two
\* files when matrixtofile is set
FinishReport ==
    /\ pc = "done"
    /\ IF ordered
       THEN \E s \in SortOrders(Cfull), order \in OpticsOrders(Cfull) :
               /\ famcat' = Take(Take(famcat, s), order)
               /\ Cind' = Reindex(Reindex(Cind, s), order)
               /\ Cfull' = Reindex(Reindex(Cfull, s), order)
       ELSE UNCHANGED <<famcat, Cind, Cfull>>
    /\ files' = IF matrixtofile
                THEN Save(Save(files, CfullFile(fnum), Cfull'),
                          EvTimesFile(fnum), SavedTimes(famcat'))
                ELSE files
    /\ pc' = "returned"
    /\ UNCHANGED <<store, fam, i, j, calls>>
    /\ UNCHANGED <<ordered, matrixtofile, fnum, firstSaved, moreVars>>
    /\ UNCHANGED <<clipVars, idemVars, occVars, passVars, colorVars>>

\* plotReport is called again, for another family of the same tables
ReportNextFamily ==
    /\ pc = "returned"
    /\ firstSaved = <<>>
    /\ \E g \in SortedFams :
          /\ \A a \in DOMAIN g, b \in DOMAIN fam : g[a] # fam[b]
          /\ fam' = g
    /\ fnum' = fnum + 1
    /\ firstSaved' = [fnum |-> fnum, Cfull |-> Cfull, evTimes |-> SavedTimes(famcat)]
    /\ famcat' = <<>> /\ Cind' = <<>> /\ Cfull' = <<>>
    /\ i' = 0 /\ j' = 0 /\ calls' = <<>>
    /\ pc' = "start"
    /\ UNCHANGED <<store, ordered, matrixtofile, files, moreVars>>
    /\ UNCHANGED <<clipVars, idemVars, occVars, passVars, colorVars>>

InitReport ==
    /\ store \in PassStores
    /\ fam \in SortedFams
    /\ ordered \in BOOLEAN
    /\ matrixtofile \in BOOLEAN
    /\ fnum = 0
    /\ files = <<>>
    /\ firstSaved = <<>>
    /\ famcat = <<>> /\ Cind = <<>> /\ Cfull = <<>>
    /\ i = 0 /\ j = 0 /\ calls = <<>>
    /\ pc = "start"
    /\ ClipIdle /\ IdemIdle /\ OccIdle /\ PassIdle /\ ColorIdle /\ MoreIdle

NextReport ==
    BuildStored \/ Compare \/ CompareRaises \/ Skip \/ FinishReport
    \/ ReportNextFamily

SpecReport == InitReport /\ [][NextReport]_vars

\* the index of event e in the time-sorted family the loop ran over
TimeIndex(e) == CHOOSE k \in DOMAIN fam : Famcat(fam)[k] = e

\* the stored similarity of the events e1, e2 of the family
StoredSim(e1, e2) ==
    IF e1 = e2 THEN Unit
    ELSE IF Present(Ids(e1), Ids(e2)) THEN Lookup(Ids(e1), Ids(e2)) ELSE 0

\* the completed similarity of the events e1, e2 of the family
FullSim(e1, e2) ==
    IF StoredSim(e1, e2) # 0 THEN StoredSim(e1, e2)
    ELSE Returned(TimeIndex(e1), TimeIndex(e2))

\* C23: with ordered set, after plotReport has reordered, famcat is a
\* permutation of the members of the family, Cind[a,b] is the stored and
\* Cfull[a,b] the completed similarity of the events famcat[a] and famcat[b],
\* and both matrices are still symmetric with a diagonal of 1.
C23_OrderingKeepsAlignment ==
    (pc = "returned" /\ ordered) =>
        /\ DOMAIN famcat = DOMAIN fam
        /\ {famcat[a] : a \in DOMAIN fam} = {fam[a] : a \in DOMAIN fam}
        /\ \A a, b \in DOMAIN fam : a # b => famcat[a] # famcat[b]
        /\ \A a, b \in DOMAIN fam :
              /\ Cind[a][b] = StoredSim(famcat[a], famcat[b])
              /\ Cfull[a][b] = FullSim(famcat[a], famcat[b])
              /\ Cind[a][b] = Cind[b][a]
              /\ Cfull[a][b] = Cfull[b][a]
        /\ \A a \in DOMAIN fam : Cind[a][a] = Unit /\ Cfull[a][a] = Unit

\* a family of three whose order changed, with a stored and a computed cell
C23_Witness ==
    /\ pc = "returned" /\ ordered
    /\ Size(fam) = 3
    /\ famcat # Famcat(fam)
    /\ \E a, b \in DOMAIN fam : Cind[a][b] = 9 /\ Cfull[a][b] = 9
    /\ \E a, b \in DOMAIN fam : Cind[a][b] = 0 /\ Cfull[a][b] = 5

\* C24 as stated: with matrixtofile set, plotReport writes Cfull in its final
\* order and a mapping of the same length whose entry a is the id of the
\* event of row and column a.
C24_SavedWithEventIds ==
    (pc = "returned" /\ matrixtofile) =>
        /\ CfullFile(fnum) \in DOMAIN files
        /\ EvTimesFile(fnum) \in DOMAIN files
        /\ files[CfullFile(fnum)] = Cfull
        /\ DOMAIN files[EvTimesFile(fnum)] = DOMAIN Cfull
        /\ \A a \in DOMAIN Cfull :
              files[EvTimesFile(fnum)][a] = Ids(famcat[a])

\* C24: with matrixtofile set, plotReport writes Cfull in its final order and
\* an array of the same length whose entry a is the start time of the event
\* of row and column a: the cell a, b of the written matrix is the completed
\* similarity of the events whose start times are the entries a and b.
C24_SavedWithEventTimes ==
    (pc = "returned" /\ matrixtofile) =>
        /\ CfullFile(fnum) \in DOMAIN files
        /\ EvTimesFile(fnum) \in DOMAIN files
        /\ files[CfullFile(fnum)] = Cfull
        /\ DOMAIN files[EvTimesFile(fnum)] = DOMAIN Cfull
        /\ \A a \in DOMAIN Cfull :
              /\ famcat[a] \in {fam[k] : k \in DOMAIN fam}
              /\ files[EvTimesFile(fnum)][a] = StartTime(famcat[a])
        /\ \A a, b \in DOMAIN Cfull :
              files[CfullFile(fnum)][a][b] = FullSim(famcat[a], famcat[b])

\* a reordered family of three has been written
C24_Witness ==
    /\ pc = "returned" /\ matrixtofile /\ ordered
    /\ Size(fam) = 3
    /\ famcat # Famcat(fam)
    /\ CfullFile(fnum) \in DOMAIN files
    /\ \E a, b \in DOMAIN fam : files[CfullFile(fnum)][a][b] = 5

---------------------------------------------------------------------------
(* renderBokehTimeline: the subplots of opt.plotformat and their layout *)

MaxGroups == 2    \* the most groups between ',' in plotformat
MaxTabs   == 2    \* the most entries joined by '+' in a group

\* the entries of plotformat: two that renderBokehTimeline knows, one it does not
ValidTypes == {"eqrate", "fi"}
PlotTypes  == ValidTypes \cup {"bogus"}

\* the title renderBokehTimeline gives the subplot of a type
TabTitle(p) == IF p = "eqrate" THEN "Event Rate" ELSE "FI"

SeqsUpTo(S, n) == UNION {[1 .. k -> S] : k \in 1 .. n}

\* pf.split('+') for the groups pf of plotformat.split(',')
Groups  == SeqsUpTo(PlotTypes, MaxTabs)
Formats == SeqsUpTo(Groups, MaxGroups)

RECURSIVE Flatten(_)
\* plotformat.replace('+',',').split(',')
Flatten(q) == IF q = <<>> THEN <<>> ELSE Head(q) \o Flatten(Tail(q))

plot_types == Flatten(plotformat)

\* the position the creation loop goes to after an entry
CreateNext ==
    /\ tpos' = tpos + 1
    /\ rpc' = IF tpos + 1 = Len(plot_types) THEN "layout" ELSE "create"

\* lines 171-201: a known entry gets a subplot and a title
CreatePlot ==
    /\ rpc = "create"
    /\ plot_types[tpos + 1] \in ValidTypes
    /\ plots' = Append(plots, [type |-> plot_types[tpos + 1], entry |-> tpos])
    /\ tabtitles' = Append(tabtitles, TabTitle(plot_types[tpos + 1]))
    /\ CreateNext
    /\ UNCHANGED <<plotformat, gridplot_items, pnum, gpos>>
    /\ UNCHANGED <<matrixVars, clipVars, idemVars, occVars, passVars, colorVars>>
    /\ UNCHANGED <<reportVars, timelineVars, renumVars>>

\* lines 203-204: an entry that is not known is passed over with a message
MovingOn ==
    /\ rpc = "create"
    /\ plot_types[tpos + 1] \notin ValidTypes
    /\ CreateNext
    /\ UNCHANGED <<plotformat, plots, tabtitles, gridplot_items, pnum, gpos>>
    /\ UNCHANGED <<matrixVars, clipVars, idemVars, occVars, passVars, colorVars>>
    /\ UNCHANGED <<reportVars, timelineVars, renumVars>>

\* the number of subplots the group at gpos takes from plots
Taken == Len(plotformat[gpos + 1])

\* the position the layout loop goes to after a group; after the last group
\* lines 237-239 build the grid and save it
LayoutNext ==
    /\ gpos' = gpos + 1
    /\ pnum' = pnum + Taken
    /\ rpc' = IF gpos + 1 = Len(plotformat) THEN "saved" ELSE "layout"

\* lines 226-232: a group with '+' becomes one row of tabs
LayoutTabs ==
    /\ rpc = "layout"
    /\ Taken > 1
    /\ pnum + Taken <= Len(plots)
    /\ gridplot_items' =
          Append(gridplot_items,
                 [k \in 1 .. Taken |->
                     [child |-> plots[pnum + k], title |-> tabtitles[pnum + k]]])
    /\ LayoutNext
    /\ UNCHANGED <<plotformat, plots, tabtitles, tpos>>
    /\ UNCHANGED <<matrixVars, clipVars, idemVars, occVars, passVars, colorVars>>
    /\ UNCHANGED <<reportVars, timelineVars, renumVars>>

\* lines 233-235: a group without '+' becomes a row with one subplot
LayoutSingle ==
    /\ rpc = "layout"
    /\ Taken = 1
    /\ pnum + Taken <= Len(plots)
    /\ gridplot_items' =
          Append(gridplot_items, <<[child |-> plots[pnum + 1], title |-> ""]>>)
    /\ LayoutNext
    /\ UNCHANGED <<plotformat, plots, tabtitles, tpos>>
    /\ UNCHANGED <<matrixVars, clipVars, idemVars, occVars, passVars, colorVars>>
    /\ UNCHANGED <<reportVars, timelineVars, renumVars>>

\* lines 230 and 234: plots[pnum+pft] or plots[pnum] past the end of plots
\* raises IndexError
LayoutRaises ==
    /\ rpc = "layout"
    /\ pnum + Taken > Len(plots)
    /\ rpc' = "raised"
    /\ UNCHANGED <<plotformat, plots, tabtitles, gridplot_items, pnum, tpos, gpos>>
    /\ UNCHANGED <<matrixVars, clipVars, idemVars, occVars, passVars, colorVars>>
    /\ UNCHANGED <<reportVars, timelineVars, renumVars>>

InitLayout ==
    /\ plotformat \in Formats
    /\ plots = <<>> /\ tabtitles = <<>> /\ gridplot_items = <<>>
    /\ pnum = 0 /\ tpos = 0 /\ gpos = 0
    /\ rpc = "create"
    /\ MatrixIdle /\ ClipIdle /\ IdemIdle /\ OccIdle /\ PassIdle /\ ColorIdle
    /\ ReportIdle /\ TimelineIdle /\ RenumIdle

NextLayout ==
    CreatePlot \/ MovingOn \/ LayoutTabs \/ LayoutSingle \/ LayoutRaises

SpecLayout == InitLayout /\ [][NextLayout]_vars

\* the subplots of the rows of the layout, row after row
Placed == Flatten([k \in 1 .. Len(gridplot_items) |->
                     [m \in 1 .. Len(gridplot_items[k]) |-> gridplot_items[k][m].child]])

\* C26: an entry of plotformat that is not a plot type is passed over and
\* the layout still completes: renderBokehTimeline does not raise, and in
\* the saved layout every created subplot is placed once, in the order of
\* plotformat, in the row of its own group, each tab under its own title.
C26_InvalidEntrySkipped ==
    /\ rpc # "raised"
    /\ rpc = "saved" =>
          /\ Placed = plots
          /\ \A k \in 1 .. Len(gridplot_items) :
                \A m \in 1 .. Len(gridplot_items[k]) :
                    LET c == gridplot_items[k][m]
                    IN  /\ Len(plotformat[k]) > 1 => c.title = TabTitle(c.child.type)
                        /\ \E x \in 1 .. Len(plotformat[k]) :
                              c.child.type = plotformat[k][x]

---------------------------------------------------------------------------
(* plotSingleFamily: the amplitude, spacing and correlation timelines *)

\* catalog = startTimeMPL[fam][catalogind]
Catalog(f) == [k \in DOMAIN f |-> StartTimeMPL(Famcat(f)[k])]

\* coreind = np.where(fam==core)[0][0]
Coreind(f, c) == CHOOSE k \in DOMAIN f : f[k] = c

RECURSIVE SumCol(_, _, _)
\* np.sum(C,0)[b]: the sum of column b over the rows 0 .. k
SumCol(M, b, k) == IF k < 0 THEN 0 ELSE M[k][b] + SumCol(M, b, k - 1)

\* np.argmax(v): the first index of the largest value
Argmax(v) ==
    CHOOSE a \in DOMAIN v :
        /\ \A b \in DOMAIN v : v[a] >= v[b]
        /\ \A b \in DOMAIN v : b < a => v[b] < v[a]

\* Cprint = C[np.argmax(np.sum(C,0)),:], in the order of fam
Cprint(s, f) ==
    LET C == CMatrix(s, f)
        n == Size(f)
    IN  C[Argmax([b \in DOMAIN f |-> SumCol(C, b, n - 1)])]

\* lines 1274-1279, 1294-1300, 1327-1330: the points of the three timelines,
\* each with its time t and the event ev whose value it shows
Timelines(s, f, c) ==
    LET cat  == Catalog(f)
        fc   == Famcat(f)
        ci   == Coreind(f, c)
        cp   == Cprint(s, f)
    IN  [amp      |-> [k \in DOMAIN f |-> [t |-> cat[k], ev |-> fc[k]]],
         ampCore  |-> [t |-> cat[ci], ev |-> fc[ci]],
         spacingCore |-> IF ci > 0 THEN <<[t |-> cat[ci], ev |-> fc[ci]]>> ELSE <<>>,
         corr     |-> [k \in DOMAIN f |-> [t |-> cat[k], ev |-> f[k], val |-> cp[k]]],
         corrCore |-> [t |-> cat[ci], ev |-> f[ci], val |-> cp[ci]]]

\* timelines for the family of one member, or a store that pairs a member
\* with an event outside it: lines 1310 and 1320 raise
TimelinesRaise == Size(fam) = 1 \/ RaisesIndexError(store, fam)

plotTimelinesOfFamily ==
    /\ tpc = "start"
    /\ ~TimelinesRaise
    /\ tline' = Timelines(store, fam, core)
    /\ tpc' = "done"
    /\ UNCHANGED <<core, store, fam, famcat, Cind, Cfull, i, j, calls, pc>>
    /\ UNCHANGED <<clipVars, idemVars, occVars, passVars, colorVars>>
    /\ UNCHANGED <<reportVars, layoutVars, renumVars>>

plotTimelinesOfFamilyRaises ==
    /\ tpc = "start"
    /\ TimelinesRaise
    /\ tpc' = "raised"
    /\ UNCHANGED <<core, tline, store, fam, famcat, Cind, Cfull, i, j, calls, pc>>
    /\ UNCHANGED <<clipVars, idemVars, occVars, passVars, colorVars>>
    /\ UNCHANGED <<reportVars, layoutVars, renumVars>>

InitTimeline ==
    /\ fam \in Families
    /\ store \in PassStores
    /\ core \in {fam[k] : k \in DOMAIN fam}
    /\ tline = <<>>
    /\ tpc = "start"
    /\ famcat = <<>> /\ Cind = <<>> /\ Cfull = <<>>
    /\ i = 0 /\ j = 0 /\ calls = <<>> /\ pc = "idle"
    /\ ClipIdle /\ IdemIdle /\ OccIdle /\ PassIdle /\ ColorIdle
    /\ ReportIdle /\ LayoutIdle /\ RenumIdle

NextTimeline == plotTimelinesOfFamily \/ plotTimelinesOfFamilyRaises

SpecTimeline == InitTimeline /\ [][NextTimeline]_vars

\* C27: on the amplitude, the spacing and the correlation timeline the black
\* point is the core event at the core event's time, and every correlation
\* value is drawn at the time of the event it belongs to, for every order of
\* the member list.
C27_CoreAndTimesPaired ==
    tpc = "done" =>
        /\ tline.ampCore.ev = core
        /\ tline.ampCore.t = StartTimeMPL(core)
        /\ \A k \in 1 .. Len(tline.spacingCore) : tline.spacingCore[k].ev = core
        /\ tline.corrCore.ev = core
        /\ tline.corrCore.t = StartTimeMPL(core)
        /\ \A k \in DOMAIN fam : tline.corr[k].t = StartTimeMPL(tline.corr[k].ev)

---------------------------------------------------------------------------
(* createPlots and plotCores: the images of renumbered families *)

\* len(ftable), and the numbers a family can have been printed under
NumFam  == MaxClust + 1
FamNums == 0 .. (NumFam - 1)
OldNums == 0 .. NumFam

\* clusters/{n}.png, clusters/fam{n}.png and the same with .tmp appended
ImageNames == [kind : {"core", "fam"}, n : OldNums, tmp : BOOLEAN]

\* '{}.png'.format(n) and 'fam{}.png'.format(n)
FinalName(kind, k) == [kind |-> kind, n |-> k, tmp |-> FALSE]

\* a renaming straight to the new number, without .tmp
DirectName(kind, k) == [kind |-> kind, n |-> k, tmp |-> FALSE]

\* '{}.png.tmp'.format(n) and 'fam{}.png.tmp'.format(n)
TmpName(kind, k) == [kind |-> kind, n |-> k, tmp |-> TRUE]

\* no file of that name
NoImage == [kind |-> "none", made |-> "none", n |-> 0]

\* the image a family was printed with before the call, and a new one
OldImage(kind, k) == [kind |-> kind, made |-> "old", n |-> k]
NewImage(kind, k) == [kind |-> kind, made |-> "new", n |-> k]

\* the clusters directory with every family printed except those of gone
Printed(gone) ==
    [x \in ImageNames |->
        IF x.tmp \/ x.n \in gone THEN NoImage ELSE OldImage(x.kind, x.n)]

\* os.rename(src, dst): dst is replaced when it exists
Rename(D, src, dst) ==
    [x \in DOMAIN D |-> IF x = dst THEN D[src]
                        ELSE IF x = src THEN NoImage ELSE D[x]]

\* line 1027: the families plotCores renames the images of
Renamed(lp, pm, k) == lp[k] # k /\ ~pm[k]

\* line 65: np.sum(ftable.cols.printme[:])
AnyPrintme(pm) == \E k \in DOMAIN pm : pm[k]

RenumUnchanged ==
    /\ UNCHANGED <<sliceFails, cnum, plotted, diag, ppc>>
    /\ UNCHANGED <<matrixVars, clipVars, idemVars, occVars, colorVars>>
    /\ UNCHANGED <<reportVars, layoutVars, timelineVars>>

\* lines 63-65: without a printme set nothing is renamed or plotted
CreatePlotsStart ==
    /\ xpc = "start"
    /\ IF AnyPrintme(printme)
       THEN xpc' = "rename" /\ rnum' = NumFam - 1
       ELSE xpc' = "tmp" /\ rnum' = rnum
    /\ UNCHANGED <<printme, lastprint, disk, before, lastprint0, printme0, ncall>>
    /\ RenumUnchanged

\* the position of the loop of line 1026 after one family
RenameNext ==
    /\ rnum' = IF rnum = 0 THEN 0 ELSE rnum - 1
    /\ xpc' = IF rnum = 0 THEN "cores" ELSE "rename"

\* lines 1027-1033: the two images of a renumbered family are moved to the
\* new number with .tmp appended
RenameImages ==
    /\ xpc = "rename"
    /\ Renamed(lastprint, printme, rnum)
    /\ disk[FinalName("core", lastprint[rnum])] # NoImage
    /\ disk[FinalName("fam", lastprint[rnum])] # NoImage
    /\ disk' = Rename(Rename(disk, FinalName("core", lastprint[rnum]),
                                   TmpName("core", rnum)),
                      FinalName("fam", lastprint[rnum]), TmpName("fam", rnum))
    /\ RenameNext
    /\ UNCHANGED <<printme, lastprint, before, lastprint0, printme0, ncall>>
    /\ RenumUnchanged

\* line 1027 when the family keeps its number or is printed again
RenameSkip ==
    /\ xpc = "rename"
    /\ ~Renamed(lastprint, printme, rnum)
    /\ RenameNext
    /\ UNCHANGED <<printme, lastprint, disk, before, lastprint0, printme0, ncall>>
    /\ RenumUnchanged

\* lines 1028-1033 when an image to move is not there: os.rename raises
\* FileNotFoundError, after the first rename if only the second fails
RenameRaises ==
    /\ xpc = "rename"
    /\ Renamed(lastprint, printme, rnum)
    /\ \/ disk[FinalName("core", lastprint[rnum])] = NoImage
       \/ disk[FinalName("fam", lastprint[rnum])] = NoImage
    /\ disk' = IF disk[FinalName("core", lastprint[rnum])] = NoImage THEN disk
               ELSE Rename(disk, FinalName("core", lastprint[rnum]),
                                 TmpName("core", rnum))
    /\ xpc' = "raised"
    /\ UNCHANGED <<printme, lastprint, before, lastprint0, printme0, rnum, ncall>>
    /\ RenumUnchanged

\* lines 1035-1058: a new core image for every family with printme set
SaveCores ==
    /\ xpc = "cores"
    /\ disk' = [x \in DOMAIN disk |->
                  IF x.kind = "core" /\ ~x.tmp /\ x.n \in FamNums /\ printme[x.n]
                  THEN NewImage("core", x.n) ELSE disk[x]]
    /\ xpc' = "families"
    /\ UNCHANGED <<printme, lastprint, before, lastprint0, printme0, rnum, ncall>>
    /\ RenumUnchanged

\* line 75, plotFamilies: a new family image for every family with printme set
SaveFamilies ==
    /\ xpc = "families"
    /\ disk' = [x \in DOMAIN disk |->
                  IF x.kind = "fam" /\ ~x.tmp /\ x.n \in FamNums /\ printme[x.n]
                  THEN NewImage("fam", x.n) ELSE disk[x]]
    /\ xpc' = "reset"
    /\ UNCHANGED <<printme, lastprint, before, lastprint0, printme0, rnum, ncall>>
    /\ RenumUnchanged

\* line 75 when plotSingleFamily raises: createPlots has no handler
SaveFamiliesRaises ==
    /\ xpc = "families"
    /\ xpc' = "raised"
    /\ UNCHANGED <<printme, lastprint, disk, before, lastprint0, printme0, rnum, ncall>>
    /\ RenumUnchanged

\* lines 77-78
ResetPrintme ==
    /\ xpc = "reset"
    /\ printme' = [k \in DOMAIN printme |-> FALSE]
    /\ lastprint' = [k \in DOMAIN lastprint |-> k]
    /\ xpc' = "tmp"
    /\ UNCHANGED <<disk, before, lastprint0, printme0, rnum, ncall>>
    /\ RenumUnchanged

\* lines 83-85: every *.tmp is renamed to its name without .tmp
RenameTmp ==
    /\ xpc = "tmp"
    /\ disk' = [x \in DOMAIN disk |->
                  IF x.tmp THEN NoImage
                  ELSE IF disk[TmpName(x.kind, x.n)] # NoImage
                       THEN disk[TmpName(x.kind, x.n)]
                       ELSE disk[x]]
    /\ xpc' = "returned"
    /\ UNCHANGED <<printme, lastprint, before, lastprint0, printme0, rnum, ncall>>
    /\ RenumUnchanged

\* test.py lines 21-24 run again: createPlots on the tables it left
CreatePlotsAgain ==
    /\ xpc = "returned"
    /\ ncall = 1
    /\ ncall' = 2
    /\ xpc' = "start"
    /\ UNCHANGED <<printme, lastprint, disk, before, lastprint0, printme0, rnum>>
    /\ RenumUnchanged

InitRenum ==
    /\ lastprint \in [FamNums -> OldNums]
    /\ printme \in [FamNums -> BOOLEAN]
    /\ \E gone \in {{}} \cup {{k} : k \in OldNums} : disk = Printed(gone)
    /\ before = disk
    /\ lastprint0 = lastprint
    /\ printme0 = printme
    /\ rnum = 0 /\ ncall = 1
    /\ xpc = "start"
    /\ sliceFails = {} /\ cnum = 0 /\ plotted = {} /\ diag = {} /\ ppc = "idle"
    /\ MatrixIdle /\ ClipIdle /\ IdemIdle /\ OccIdle /\ ColorIdle
    /\ ReportIdle /\ LayoutIdle /\ TimelineIdle

NextRenum ==
    \/ CreatePlotsStart \/ RenameImages \/ RenameSkip \/ RenameRaises
    \/ SaveCores \/ SaveFamilies \/ SaveFamiliesRaises \/ ResetPrintme
    \/ RenameTmp \/ CreatePlotsAgain

SpecRenum == InitRenum /\ [][NextRenum]_vars

\* the families whose images the first call has to move
Moved0 == {k \in FamNums : Renamed(lastprint0, printme0, k)}

\* the case of C30: some family is renumbered, lastprint is injective on the
\* renumbered families, and some printme is set
RenumCase ==
    /\ Moved0 # {}
    /\ \A a, b \in Moved0 : a # b => lastprint0[a] # lastprint0[b]
    /\ AnyPrintme(printme0)

\* the image the directory held under a name is still in the directory
StillThere(x) == before[x] # NoImage => \E y \in DOMAIN disk : disk[y] = before[x]

\* C30: when createPlots runs with renumbered families, lastprint injective
\* on them and a printme set, then after it returns n.png and famn.png hold
\* the images that were at lastprint[n].png and fam{lastprint[n]}.png, no
\* .tmp file is left, printme is all 0 and lastprint[n] = n; at no step is an
\* image that has to be moved lost; and a repeated createPlots changes no
\* file and no flag.
C30_RenumberingProtocol ==
    /\ [](RenumCase =>
            /\ \A k \in Moved0 :
                  /\ StillThere(FinalName("core", lastprint0[k]))
                  /\ StillThere(FinalName("fam", lastprint0[k]))
            /\ xpc = "returned" =>
                  /\ \A k \in Moved0 :
                        /\ disk[FinalName("core", k)] =
                              before[FinalName("core", lastprint0[k])]
                        /\ disk[FinalName("fam", k)] =
                              before[FinalName("fam", lastprint0[k])]
                        /\ disk[FinalName("core", k)] # NoImage
                        /\ disk[FinalName("fam", k)] # NoImage
                  /\ \A x \in DOMAIN disk : x.tmp => disk[x] = NoImage
                  /\ \A k \in FamNums : ~printme[k] /\ lastprint[k] = k)
    /\ [][ncall = 2 => UNCHANGED <<disk, printme, lastprint>>]_vars

\* two families have swapped numbers, a third is printed again, and the
\* repeated call has returned
C30_Witness ==
    /\ xpc = "returned" /\ ncall = 2
    /\ RenumCase
    /\ lastprint0[0] = 1 /\ lastprint0[1] = 0
    /\ Moved0 = {0, 1}
    /\ disk[FinalName("core", 0)] = OldImage("core", 1)
    /\ disk[FinalName("fam", 1)] = OldImage("fam", 0)

=============================================================================
